---------------------------- MODULE Spec2Model ----------------------------
(***************************************************************************)
(* Model of grocery_scraper.py: PriceComparator (compare_prices,           *)
(* _rank_results, add_credentials) driving the scrapers through the        *)
(* StoreScraperBase interface (login, search_product, cleanup).            *)
(*                                                                         *)
(* Abstractions:                                                           *)
(*  - A PriceRecord keeps store, url, brand and price; the two values the  *)
(*    fuzzywuzzy library returns for it against the target product         *)
(*    (fuzz.partial_ratio on the names, fuzz.ratio on the brands) are      *)
(*    carried in the record as name_ratio and brand_ratio.                 *)
(*  - Prices are in cents.  The relevance score name*0.7 + brand*0.3 is    *)
(*    kept in tenths (name*7 + brand*3), in exact arithmetic; for ratios   *)
(*    in 0..100 the float comparison score > 60 agrees with it, and the    *)
(*    records used here tie in score only when their ratios are equal.     *)
(*  - A scraper is any implementation of the StoreScraperBase interface:   *)
(*    login returns True or False or raises, search_product returns a      *)
(*    list or raises (the base class raises NotImplementedError),          *)
(*    driver.quit() in cleanup returns or raises.                          *)
(***************************************************************************)
EXTENDS Integers, Sequences, FiniteSets, TLC

VARIABLES
    username,       \* [store -> BOOLEAN]: scraper has username/password attributes
    driver,         \* [store -> "none" | "open" | "quit"]: scraper.driver
    price_history,  \* PriceComparator.price_history
    pc,             \* position in compare_prices: idle, login, search, cleanup, rank
    idx,            \* position of the loop over self.scrapers
    product,        \* the argument of the current compare_prices call
    all_results,    \* the local all_results of compare_prices
    status,         \* [store -> outcome of the store in the current call]
    calls,          \* [store -> number of login/search/cleanup calls in the current call]
    auth,           \* [store -> what login gave in the current call: none, true, false, raise]
    found,          \* [store -> the list search_product returned in the current call]
    hist0,          \* price_history as it was when the current call began
    result,         \* what the last compare_prices call gave its caller
    ncalls          \* number of compare_prices calls begun

vars == <<username, driver, price_history, pc, idx, product, all_results,
          status, calls, auth, found, hist0, result, ncalls>>

\* ------------------------------------------------------------- bounds
MaxCalls == 2
MaxRank == 3

\* ---------------------------------------------------------- constants
NameWeight == 7
BrandWeight == 3
DefaultBrandSimilarity == 50
RelevanceThreshold == 60

\* self.scrapers, in the insertion order of the dict
scrapers == <<"walmart", "safeway">>
Stores == {scrapers[i] : i \in DOMAIN scrapers}

\* ------------------------------------------------------------ records
PriceRecord(st, u, nr, b, br, pr) ==
    [store |-> st, url |-> u, name_ratio |-> nr, brand |-> b,
     brand_ratio |-> br, price |-> pr]

Product(n, b) == [name |-> n, brand |-> b]

Products == {Product("", ""), Product("milk", ""), Product("milk", "acme")}

Range(s) == {s[i] : i \in DOMAIN s}

IsPrefix(s, t) == Len(s) <= Len(t) /\ SubSeq(t, 1, Len(s)) = s

\* ------------------------------------------------------------ ranking
\* relevance_score, in tenths
relevance_score(target, r) ==
    LET name_similarity == r.name_ratio
        brand_similarity == IF target.brand # "" /\ r.brand # ""
                            THEN r.brand_ratio
                            ELSE DefaultBrandSimilarity
    IN  name_similarity * NameWeight + brand_similarity * BrandWeight

\* the filter of the returned comprehension: score > 60
RelevantOffByOne(score) == score >= RelevanceThreshold * 10
Relevant(score) == score > RelevanceThreshold * 10

\* the sort key (-x[1], x[0].price), compared as Python compares tuples
KeyLessScoreOnly(target, a, b) ==
    -relevance_score(target, a) < -relevance_score(target, b)
KeyLess(target, a, b) ==
    \/ -relevance_score(target, a) < -relevance_score(target, b)
    \/ /\ -relevance_score(target, a) = -relevance_score(target, b)
       /\ a.price < b.price

\* list.sort is stable: x goes before the first element whose key is
\* strictly greater, after every element whose key is equal
RECURSIVE InsertSorted(_, _, _)
InsertSorted(target, x, s) ==
    IF s = <<>> THEN <<x>>
    ELSE IF KeyLess(target, x, Head(s)) THEN <<x>> \o s
    ELSE <<Head(s)>> \o InsertSorted(target, x, Tail(s))

RECURSIVE SortScored(_, _)
SortScored(target, s) ==
    IF s = <<>> THEN <<>>
    ELSE InsertSorted(target, s[Len(s)], SortScored(target, SubSeq(s, 1, Len(s) - 1)))

rank_results(target_product, results) ==
    SelectSeq(SortScored(target_product, results),
              LAMBDA r : Relevant(relevance_score(target_product, r)))

\* ------------------------------------------------------ the scrapers
\* what search_product of a store may return
Catalog(st) ==
    <<PriceRecord(st, 1, 90, "acme", 90, 250),
      PriceRecord(st, 2, 60, "acme", 60, 0)>>

SearchOutcomes(st) ==
    {<<>>, <<Catalog(st)[1]>>, <<Catalog(st)[1], Catalog(st)[2]>>}

LoginOutcomes == {"true", "false_after_setup", "false_before_setup", "raise"}

Terminal == {"Done", "Skipped", "Failed"}

NoCalls == [login |-> 0, search |-> 0, cleanup |-> 0]

NoResult == [kind |-> "none", results |-> <<>>, best_deal |-> <<>>]
Raised == [kind |-> "raised", results |-> <<>>, best_deal |-> <<>>]

\* ---------------------------------------------------- the orchestrator
\* where the for loop over self.scrapers.items() stands at store number i
LoopAt(i) ==
    IF i > Len(scrapers) THEN [pc |-> "cleanup", idx |-> 1]
    ELSE IF username[scrapers[i]] THEN [pc |-> "login", idx |-> i]
    ELSE [pc |-> "search", idx |-> i]

\* `continue` after a login that returned False
LoginFalseFallsThrough(i) == [pc |-> "search", idx |-> i]
LoginFalseNext(i) == LoopAt(i + 1)

\* self.price_history.extend(all_results)
extendReplaces(history, results) == results
extend(history, results) == history \o results

\* where the cleanup loop stands after store number i
CleanupStopsAfterFirst(i) == [pc |-> "rank", idx |-> i]
CleanupNext(i) ==
    IF i >= Len(scrapers) THEN [pc |-> "rank", idx |-> i]
    ELSE [pc |-> "cleanup", idx |-> i + 1]

Init ==
    /\ username = [s \in Stores |-> FALSE]
    /\ driver = [s \in Stores |-> "none"]
    /\ price_history = <<>>
    /\ pc = "idle"
    /\ idx = 1
    /\ product = Product("milk", "")
    /\ all_results = <<>>
    /\ status = [s \in Stores |-> "Idle"]
    /\ calls = [s \in Stores |-> NoCalls]
    /\ auth = [s \in Stores |-> "none"]
    /\ found = [s \in Stores |-> <<>>]
    /\ hist0 = <<>>
    /\ result = NoResult
    /\ ncalls = 0

add_credentials(store) ==
    /\ pc = "idle"
    /\ store \in Stores
    /\ ~username[store]
    /\ username' = [username EXCEPT ![store] = TRUE]
    /\ UNCHANGED <<driver, price_history, pc, idx, product, all_results,
                   status, calls, auth, found, hist0, result, ncalls>>

\* compare_prices up to the head of the loop
compare_prices(p) ==
    /\ pc = "idle"
    /\ ncalls < MaxCalls
    /\ ncalls' = ncalls + 1
    /\ product' = p
    /\ all_results' = <<>>
    /\ pc' = LoopAt(1).pc
    /\ idx' = LoopAt(1).idx
    /\ status' = [s \in Stores |-> "Idle"]
    /\ calls' = [s \in Stores |-> NoCalls]
    /\ auth' = [s \in Stores |-> "none"]
    /\ found' = [s \in Stores |-> <<>>]
    /\ hist0' = price_history
    /\ result' = NoResult
    /\ UNCHANGED <<username, driver, price_history>>

\* scraper.login(...) and the branch on what it gives
Login(o) ==
    /\ pc = "login"
    /\ LET s == scrapers[idx] IN
       /\ calls' = [calls EXCEPT ![s].login = @ + 1]
       /\ auth' = [auth EXCEPT ![s] = CASE o = "true" -> "true"
                                        [] o = "raise" -> "raise"
                                        [] OTHER -> "false"]
       /\ driver' = IF o \in {"true", "false_after_setup"}
                    THEN [driver EXCEPT ![s] = "open"]
                    ELSE driver
       /\ CASE o = "true" ->
                 /\ pc' = "search"
                 /\ idx' = idx
                 /\ status' = status
            [] o = "raise" ->
                 /\ pc' = LoopAt(idx + 1).pc
                 /\ idx' = LoopAt(idx + 1).idx
                 /\ status' = [status EXCEPT ![s] = "Failed"]
            [] OTHER ->
                 /\ pc' = LoginFalseNext(idx).pc
                 /\ idx' = LoginFalseNext(idx).idx
                 /\ status' = [status EXCEPT ![s] = "Skipped"]
    /\ UNCHANGED <<username, price_history, product, all_results, found,
                   hist0, result, ncalls>>

\* scraper.search_product(product) returned o; all_results.extend(results)
SearchReturns(o) ==
    /\ pc = "search"
    /\ LET s == scrapers[idx] IN
       /\ o \in SearchOutcomes(s)
       /\ calls' = [calls EXCEPT ![s].search = @ + 1]
       /\ all_results' = all_results \o o
       /\ found' = [found EXCEPT ![s] = o]
       /\ status' = [status EXCEPT ![s] = "Done"]
    /\ pc' = LoopAt(idx + 1).pc
    /\ idx' = LoopAt(idx + 1).idx
    /\ UNCHANGED <<username, driver, price_history, product, auth, hist0,
                   result, ncalls>>

\* scraper.search_product(product) raised; except Exception: continue
SearchRaises ==
    /\ pc = "search"
    /\ LET s == scrapers[idx] IN
       /\ calls' = [calls EXCEPT ![s].search = @ + 1]
       /\ status' = [status EXCEPT ![s] = "Failed"]
    /\ pc' = LoopAt(idx + 1).pc
    /\ idx' = LoopAt(idx + 1).idx
    /\ UNCHANGED <<username, driver, price_history, product, all_results,
                   auth, found, hist0, result, ncalls>>

\* scraper.cleanup() returned
CleanupReturns ==
    /\ pc = "cleanup"
    /\ LET s == scrapers[idx] IN
       /\ calls' = [calls EXCEPT ![s].cleanup = @ + 1]
       /\ driver' = IF driver[s] # "none" THEN [driver EXCEPT ![s] = "quit"]
                    ELSE driver
    /\ pc' = CleanupNext(idx).pc
    /\ idx' = CleanupNext(idx).idx
    /\ UNCHANGED <<username, price_history, product, all_results, status,
                   auth, found, hist0, result, ncalls>>

\* scraper.cleanup(): self.driver.quit() raised, and nothing in
\* compare_prices catches it
CleanupRaises ==
    /\ pc = "cleanup"
    /\ LET s == scrapers[idx] IN
       /\ driver[s] # "none"
       /\ calls' = [calls EXCEPT ![s].cleanup = @ + 1]
    /\ pc' = "idle"
    /\ result' = Raised
    /\ UNCHANGED <<username, driver, price_history, idx, product, all_results,
                   status, auth, found, hist0, ncalls>>

\* 'best_deal': ranked_results[0] if ranked_results else None
\* (None is <<>>, a record r is <<r>>)
best_dealLast(ranked_results) ==
    IF ranked_results # <<>> THEN <<ranked_results[Len(ranked_results)]>> ELSE <<>>
best_deal(ranked_results) ==
    IF ranked_results # <<>> THEN <<ranked_results[1]>> ELSE <<>>

\* _rank_results, price_history.extend, return
Return ==
    /\ pc = "rank"
    /\ LET ranked_results == rank_results(product, all_results) IN
       result' = [kind |-> "ok",
                  results |-> ranked_results,
                  best_deal |-> best_deal(ranked_results)]
    /\ price_history' = extend(price_history, all_results)
    /\ pc' = "idle"
    /\ UNCHANGED <<username, driver, idx, product, all_results, status,
                   calls, auth, found, hist0, ncalls>>

Next ==
    \/ \E s \in Stores : add_credentials(s)
    \/ \E p \in Products : compare_prices(p)
    \/ \E o \in LoginOutcomes : Login(o)
    \/ \E o \in UNION {SearchOutcomes(s) : s \in Stores} : SearchReturns(o)
    \/ SearchRaises
    \/ CleanupReturns
    \/ CleanupRaises
    \/ Return

Spec == Init /\ [][Next]_vars


\* ------------------------------------------- the ranker on its own
\* what all_results may hold when compare_prices reaches _rank_results:
\* records of one store that differ in score, price and url
RankRecords ==
    {PriceRecord("walmart", 1, 80, "acme", 80, 300),
     PriceRecord("walmart", 1, 80, "acme", 80, 200),
     PriceRecord("walmart", 2, 80, "acme", 80, 200),
     PriceRecord("walmart", 1, 90, "acme", 90, 500),
     PriceRecord("walmart", 1, 80, "acme", 80, 0),
     PriceRecord("walmart", 1, 60, "acme", 60, 200),
     PriceRecord("walmart", 2, 60, "acme", 60, 0),
     PriceRecord("walmart", 1, 70, "", 0, 200)}

RankProducts == {Product("milk", ""), Product("milk", "acme")}

SeqsUpTo(S, n) == UNION {[1..k -> S] : k \in 0..n}

\* compare_prices at line 399: the loop and the cleanup are over, walmart's
\* search returned all_results and safeway's returned nothing
InitRank ==
    /\ username = [s \in Stores |-> FALSE]
    /\ driver = [s \in Stores |-> "none"]
    /\ price_history = <<>>
    /\ pc = "rank"
    /\ idx = Len(scrapers)
    /\ product \in RankProducts
    /\ all_results \in SeqsUpTo(RankRecords, MaxRank)
    /\ status = [s \in Stores |-> "Done"]
    /\ calls = [s \in Stores |-> [login |-> 0, search |-> 1, cleanup |-> 1]]
    /\ auth = [s \in Stores |-> "none"]
    /\ found = [s \in Stores |-> IF s = scrapers[1] THEN all_results ELSE <<>>]
    /\ hist0 = <<>>
    /\ result = NoResult
    /\ ncalls = 1

SpecRank == InitRank /\ [][Return]_vars

\* ------------------------------------------------------------ claims
Score(r) == relevance_score(product, r)

Returned == pc = "idle" /\ result.kind = "ok"

Finished == pc = "idle" /\ result.kind # "none"

\* the records the current call has appended to the ledger
Appended == SubSeq(price_history, Len(hist0) + 1, Len(price_history))

SearchRaised(s) == status[s] = "Failed" /\ calls[s].search = 1

\* C1: when the search of source X raised and the search of source Y
\* returned records, the call ends with a normal result, the aggregate is
\* exactly what Y returned and the ledger grew by exactly Y's records.
C1_SourceIsolation ==
    \A x, y \in Stores :
        (/\ Finished
         /\ x # y
         /\ SearchRaised(x)
         /\ status[y] = "Done"
         /\ found[y] # <<>>)
        => /\ result.kind = "ok"
           /\ all_results = found[y]
           /\ result.results = rank_results(product, found[y])
           /\ price_history = hist0 \o found[y]

\* C2: every step leaves the old ledger a prefix of the new one: nothing is
\* removed, replaced, deduplicated or reordered.
C2_LedgerAppendOnly == [][IsPrefix(price_history, price_history')]_vars

\* a second call has appended to a ledger that already held records, in a
\* call where one source failed or was skipped
C2_Witness ==
    /\ Returned
    /\ hist0 # <<>>
    /\ Len(price_history) > Len(hist0)
    /\ SubSeq(price_history, 1, Len(hist0)) = hist0
    /\ \E s \in Stores : status[s] \in {"Failed", "Skipped"}

\* C3: an aggregated record whose relevance score is 60 or less is neither
\* in the returned results nor the best deal.
C3_Threshold ==
    Returned =>
        \A r \in Range(all_results) :
            Score(r) <= RelevanceThreshold * 10
            => /\ r \notin Range(result.results)
               /\ result.best_deal # <<r>>

\* a record scoring exactly 60 was aggregated with one that was returned
C3_Witness ==
    /\ Returned
    /\ \E r \in Range(all_results) : Score(r) = RelevanceThreshold * 10
    /\ result.results # <<>>

SameKey(a, b) == Score(a) = Score(b) /\ a.price = b.price

\* C4: the returned results are in descending score, equal scores in
\* ascending price, records of equal score and price in their order of
\* aggregation; A (80, 3.00), B (80, 2.00), C (90, 5.00) gives [C, B, A].
C4_RankingOrder ==
    Returned =>
        LET out == result.results IN
        /\ \A i, j \in DOMAIN out :
               i < j => \/ Score(out[i]) > Score(out[j])
                        \/ /\ Score(out[i]) = Score(out[j])
                           /\ out[i].price <= out[j].price
        /\ \A r \in Range(all_results) :
               Score(r) > RelevanceThreshold * 10
               => SelectSeq(out, LAMBDA x : SameKey(x, r))
                    = SelectSeq(all_results, LAMBDA x : SameKey(x, r))
        /\ Range(out) \subseteq Range(all_results)
        /\ (/\ product = Product("milk", "acme")
            /\ all_results = <<PriceRecord("walmart", 1, 80, "acme", 80, 300),
                               PriceRecord("walmart", 1, 80, "acme", 80, 200),
                               PriceRecord("walmart", 1, 90, "acme", 90, 500)>>)
           => out = <<PriceRecord("walmart", 1, 90, "acme", 90, 500),
                      PriceRecord("walmart", 1, 80, "acme", 80, 200),
                      PriceRecord("walmart", 1, 80, "acme", 80, 300)>>

\* the example of the claim: A, B, C aggregated in that order and ranked
C4_Witness ==
    /\ Returned
    /\ product = Product("milk", "acme")
    /\ all_results = <<PriceRecord("walmart", 1, 80, "acme", 80, 300),
                       PriceRecord("walmart", 1, 80, "acme", 80, 200),
                       PriceRecord("walmart", 1, 90, "acme", 90, 500)>>
    /\ Len(result.results) = 3

\* C5: a call whose product has an empty name invokes no login and no
\* search, leaves the ledger as it was and ends in an
\* InvalidRequestedProduct error.
C5_InvalidRequest ==
    (ncalls > 0 /\ product.name = "")
    => /\ \A s \in Stores : calls[s].login = 0 /\ calls[s].search = 0
       /\ price_history = hist0
       /\ pc = "idle" => result.kind = "InvalidRequestedProduct"

\* C6: a call for a product with a non-empty name never ends in an error,
\* whatever login, search and cleanup do: it returns a result.
C6_FailureContainment ==
    (ncalls > 0 /\ product.name # "")
    => /\ result.kind # "raised"
       /\ pc = "idle" => result.kind = "ok"

\* C7: when a call has ended, cleanup has been called exactly once on
\* every source, and at no time more than once.
C7_ReleaseExactlyOnce ==
    /\ \A s \in Stores : calls[s].cleanup <= 1
    /\ Finished => \A s \in Stores : calls[s].cleanup = 1

\* C8 as claimed: when the loop has moved on to a later source, every
\* earlier source has been released, and no two drivers are open at once.
C8_ReleaseBeforeNextSource ==
    /\ \A i \in DOMAIN scrapers :
           (pc \in {"login", "search"} /\ idx > i) => calls[scrapers[i]].cleanup = 1
    /\ Cardinality({s \in Stores : driver[s] = "open"}) <= 1

\* C8 as amended: no cleanup is called before every source has reached its
\* terminal state; the cleanups run in the configured order; ranking and
\* the ledger append come only after cleanup was called on every source.
C8_ReleaseAfterAllSources ==
    /\ (\E s \in Stores : calls[s].cleanup > 0)
       => \A s \in Stores : status[s] \in Terminal
    /\ pc \in {"login", "search"} => \A s \in Stores : calls[s].cleanup = 0
    /\ \A i, j \in DOMAIN scrapers :
           (i < j /\ calls[scrapers[j]].cleanup > 0) => calls[scrapers[i]].cleanup > 0
    /\ (pc = "rank" \/ Returned \/ price_history # hist0)
       => \A s \in Stores : calls[s].cleanup = 1 /\ driver[s] # "open"

\* in the first call both drivers are open while the second source is searched
C8_Witness ==
    /\ ncalls = 1
    /\ pc = "search"
    /\ idx = 2
    /\ \A s \in Stores : driver[s] = "open"

\* the first call has returned after both drivers were opened and quit
C8_WitnessReleased ==
    /\ ncalls = 1
    /\ Returned
    /\ \A s \in Stores : driver[s] = "quit" /\ calls[s].cleanup = 1

\* C9 as claimed: among returned records of one score, none with price 0
\* comes before one with a positive price, so the best deal has price 0
\* only if no record of its score has a positive price.
C9_ZeroPriceLast ==
    Returned =>
        LET out == result.results IN
        \A i, j \in DOMAIN out :
            (i < j /\ Score(out[i]) = Score(out[j]) /\ out[i].price = 0)
            => out[j].price = 0

\* C10: login is called only on a source with credentials; a source whose
\* login returned False is not searched, adds nothing to the aggregate or
\* to the ledger, and every source after it is still processed.
C10_AuthenticationSkip ==
    /\ \A s \in Stores : calls[s].login > 0 => username[s]
    /\ \A s \in Stores :
           auth[s] = "false"
           => /\ calls[s].search = 0
              /\ status[s] = "Skipped"
              /\ found[s] = <<>>
              /\ \A r \in Range(all_results) : r.store # s
              /\ \A r \in Range(Appended) : r.store # s
    /\ \A i, j \in DOMAIN scrapers :
           (/\ i < j
            /\ auth[scrapers[i]] = "false"
            /\ pc \in {"cleanup", "rank", "idle"})
           => /\ status[scrapers[j]] \in Terminal
              /\ calls[scrapers[j]].login + calls[scrapers[j]].search >= 1

\* walmart's login returned False, safeway was searched and its records
\* are what the call appended
C10_Witness ==
    /\ Returned
    /\ auth[scrapers[1]] = "false"
    /\ status[scrapers[2]] = "Done"
    /\ found[scrapers[2]] # <<>>
    /\ Appended = found[scrapers[2]]

\* C11: the best deal is absent exactly when the returned results are
\* empty; otherwise it is their first element, it scores above 60, and no
\* aggregated record scores higher, or the same at a lower price.
C11_BestMatch ==
    Returned =>
        /\ (result.best_deal = <<>>) <=> (result.results = <<>>)
        /\ result.results # <<>> =>
               /\ result.best_deal = <<result.results[1]>>
               /\ Score(result.best_deal[1]) > RelevanceThreshold * 10
               /\ \A r \in Range(all_results) :
                      /\ ~(Score(r) > Score(result.best_deal[1]))
                      /\ ~(/\ Score(r) = Score(result.best_deal[1])
                           /\ r.price < result.best_deal[1].price)

\* a call returned several records of different keys, one aggregated
\* record was filtered out, and a best deal was picked
C11_Witness ==
    /\ Returned
    /\ Len(result.results) >= 2
    /\ ~SameKey(result.results[1], result.results[Len(result.results)])
    /\ \E r \in Range(all_results) : Score(r) <= RelevanceThreshold * 10
    /\ result.best_deal # <<>>

\* a call returned no record and no best deal although it aggregated some
C11_WitnessEmpty ==
    /\ Returned
    /\ all_results # <<>>
    /\ result.results = <<>>
    /\ result.best_deal = <<>>

=============================================================================
